---- MODULE Spec2Model ----
(***************************************************************************)
(* Fund Matcher (matching.py): normalisation of LP / fund / consultant     *)
(* text, the two-tier master index (exact_map, funds_by_lp_cons), the      *)
(* per-row matching loop and the annotation of the output worksheet.       *)
(*                                                                         *)
(* Text is modelled as a sequence of one-character strings, so that the    *)
(* regular expressions and str methods of the source are computed          *)
(* character by character.                                                 *)
(***************************************************************************)
EXTENDS Integers, Sequences, FiniteSets, TLC

\* ------------------------------------------------------------------ bounds
MaxMaster == 2
MaxOutput == 2
MaxRowsNoColumn == 1
MaxLen == 5

\* ------------------------------------------------------- python values
\* A pandas NaN cell (a blank cell read with dtype=str) and Python's None.
NaN == <<"<NaN>">>
None == <<"<None>">>

UpperLetters == <<"A","B","C","D","E","F","G","H","I","J","K","L","M",
                  "N","O","P","Q","R","S","T","U","V","W","X","Y","Z">>
LowerLetters == <<"a","b","c","d","e","f","g","h","i","j","k","l","m",
                  "n","o","p","q","r","s","t","u","v","w","x","y","z">>
Digits == {"0","1","2","3","4","5","6","7","8","9"}

\* str.lower() on one character
LowerTable ==
    [c \in { UpperLetters[n] : n \in 1..26 } |->
        LowerLetters[CHOOSE n \in 1..26 : UpperLetters[n] = c]]

LowerChar(c) == IF c \in DOMAIN LowerTable THEN LowerTable[c] ELSE c

\* str.lower()
Lower(s) == [n \in 1..Len(s) |-> LowerChar(s[n])]

\* \s of the re module / the characters str.strip() removes
IsSpace(c) == c \in {" ", "\t", "\n"}

\* \w of the re module
WordChars ==
    { UpperLetters[n] : n \in 1..26 } \cup { LowerLetters[n] : n \in 1..26 }
        \cup Digits \cup {"_"}

IsWordChar(c) == c \in WordChars

RECURSIVE LStrip(_)
LStrip(s) ==
    IF s # <<>> /\ IsSpace(Head(s)) THEN LStrip(Tail(s)) ELSE s

RECURSIVE RStrip(_)
RStrip(s) ==
    IF s # <<>> /\ IsSpace(s[Len(s)]) THEN RStrip(SubSeq(s, 1, Len(s) - 1)) ELSE s

\* str.strip()
Strip(s) == RStrip(LStrip(s))

\* re.sub(r'\s+', ' ', s): every maximal run of whitespace becomes one space
RECURSIVE SubSpaceRuns(_)
SubSpaceRuns(s) ==
    IF s = <<>> THEN <<>>
    ELSE IF IsSpace(Head(s)) THEN <<" ">> \o SubSpaceRuns(LStrip(Tail(s)))
    ELSE <<Head(s)>> \o SubSpaceRuns(Tail(s))

collapse_spaces(s) == Strip(SubSpaceRuns(s))

normalize_lp_cons(val) ==
    IF val = None THEN <<>> ELSE Lower(collapse_spaces(val))

\* \b at the position before character k of s (k in 1..Len(s)+1)
WordBoundary(s, k) ==
    LET before == k > 1 /\ IsWordChar(s[k - 1])
        after  == k <= Len(s) /\ IsWordChar(s[k])
    IN  before # after

\* The strings the group (l\.?p\.?|llc) can consume, with re.IGNORECASE
\* applied by comparing the lowercased text.
SuffixGroup == { <<"l","p">>, <<"l",".","p">>, <<"l","p",".">>,
                 <<"l",".","p",".">>, <<"l","l","c">> }

\* The tail of the pattern after the group, \b\.?$ : a word boundary at k,
\* then at most one period, then the end of the string.
SuffixTail(s, k) ==
    /\ WordBoundary(s, k)
    /\ \/ k = Len(s) + 1
       \/ k = Len(s) /\ s[k] = "."

\* Mutant: the pattern without its leading \b, (l\.?p\.?|llc)\b\.?$
SuffixMatchAtNoLeadingBoundary(s, n) ==
    \E t \in SuffixGroup :
        /\ n + Len(t) - 1 <= Len(s)
        /\ Lower(SubSeq(s, n, n + Len(t) - 1)) = t
        /\ SuffixTail(s, n + Len(t))

\* r'\b(l\.?p\.?|llc)\b\.?$' matches s starting at character n
SuffixMatchAt(s, n) ==
    /\ WordBoundary(s, n)
    /\ \E t \in SuffixGroup :
        /\ n + Len(t) - 1 <= Len(s)
        /\ Lower(SubSeq(s, n, n + Len(t) - 1)) = t
        /\ SuffixTail(s, n + Len(t))

\* re.sub(pattern, '', s): the leftmost match runs to the end of s and is
\* removed; no second match can follow it.
SubSuffix(s) ==
    LET starts == { n \in 1..Len(s) : SuffixMatchAt(s, n) }
    IN  IF starts = {} THEN s
        ELSE SubSeq(s, 1, (CHOOSE n \in starts : \A m \in starts : n <= m) - 1)

normalize_fund(val) ==
    IF val = None THEN <<>>
    ELSE Lower(Strip(SubSuffix(collapse_spaces(val))))

\* state of the normaliser called on its own
VARIABLES nval, nfun, nres

nvars == <<nval, nfun, nres>>

\* ------------------------------------------------------------ the inputs
\* Required column names, lines 62-64 and 70-72.
MasterRequired == << <<"l","p"," ","n","a","m","e">>, <<"f","u","n","d"," ","n","a","m","e">>, <<"c","o","n","s","u","l","t","a","n","t">> >>
OutputRequired == << <<"l","p","n","a","m","e">>, <<"f","u","n","d","n","a","m","e">>, <<"r","e","p","o","r","t","i","n","g","c","o","n","s","u","l","t","a","n","t">> >>

\* Header rows of an uploaded MASTER file: one with the three required
\* columns (in other casing and padding), and one per absent column.
MasterHeadersFull ==
    { << <<" ","L","P"," ","N","a","m","e">>, <<"F","u","n","d"," ","n","a","m","e"," ">>, <<"C","O","N","S","U","L","T","A","N","T">> >> }

MasterHeadersShort ==
    { << <<"L","P">>,       <<"F","u","n","d"," ","n","a","m","e">>,  <<"C","o","n","s","u","l","t","a","n","t">> >>,
      << <<"L","P"," ","n","a","m","e">>,  <<"F","u","n","d">>,       <<"C","o","n","s","u","l","t","a","n","t">> >>,
      << <<"L","P"," ","n","a","m","e">>,  <<"F","u","n","d"," ","n","a","m","e">>,  <<"A","d","v","i","s","o","r">> >> }

\* Header rows of an uploaded OUTPUT file; the first column is not required.
OutputHeadersFull ==
    { << <<"I","D">>, <<"L","P","N","a","m","e">>,  <<" ","f","u","n","d","n","a","m","e">>, <<"R","e","p","o","r","t","i","n","g","C","o","n","s","u","l","t","a","n","t">> >> }

OutputHeadersShort ==
    { << <<"I","D">>, <<"l","p","_","n","a","m","e">>, <<"f","u","n","d","n","a","m","e">>,  <<"r","e","p","o","r","t","i","n","g","c","o","n","s","u","l","t","a","n","t">> >>,
      << <<"I","D">>, <<"l","p","n","a","m","e">>,  <<"f","u","n","d">>,      <<"r","e","p","o","r","t","i","n","g","c","o","n","s","u","l","t","a","n","t">> >>,
      << <<"I","D">>, <<"l","p","n","a","m","e">>,  <<"f","u","n","d","n","a","m","e">>,  <<"c","o","n","s","u","l","t","a","n","t">> >> }

\* Data rows of the MASTER file, one cell per header column.
MasterRows ==
    { << <<"X">>, <<"a">>,    <<"K">> >>,
      << <<"X">>, <<"A"," ","L","P">>, <<"K">> >>,
      << <<"X">>, <<"a","b">>,   <<"K">> >>,
      << <<"X">>, NaN,       <<"K">> >>,
      << NaN,    <<"L","L","C">>,  NaN >> }

\* Data rows of the OUTPUT file, one cell per header column.
OutputRows ==
    { << <<"1">>, <<" ","x">>, <<"a">>,        <<"k">> >>,
      << <<"1">>, <<"X">>,  <<"a"," "," ","b"," ","L","L","C">>, <<"K">> >>,
      << <<"1">>, <<"X">>,  NaN,           <<"K">> >>,
      << <<"1">>, NaN,     NaN,           NaN >> }

SeqsUpTo(S, n) == UNION { [1..m -> S] : m \in 0..n }

\* What read_file can return for the two uploads. A file that lacks a
\* required column is read with up to MaxRowsNoColumn data rows.
MasterFiles ==
    (MasterHeadersFull \X SeqsUpTo(MasterRows, MaxMaster))
        \cup (MasterHeadersShort \X SeqsUpTo(MasterRows, MaxRowsNoColumn))

OutputFiles ==
    (OutputHeadersFull \X SeqsUpTo(OutputRows, MaxOutput))
        \cup (OutputHeadersShort \X SeqsUpTo(OutputRows, MaxRowsNoColumn))

\* ------------------------------------------------------- python helpers
\* Mutant: the column is not filled, and str() of a NaN cell is "nan"
fillna_missing(v) == IF v = NaN THEN <<"n","a","n">> ELSE v

\* Series.fillna("")
fillna(v) == IF v = NaN THEN <<>> ELSE v

\* truth value of an optional str: None and "" are false
Truthy(v) == v # None /\ v # <<>>

\* a in b for two str
Contains(b, a) ==
    \E n \in 0..(Len(b) - Len(a)) : SubSeq(b, n + 1, n + Len(a)) = a

\* Mutant: a missing column falls back to the first column
find_column_or_first(columns, target_lower) ==
    IF \E n \in 1..Len(columns) : Lower(Strip(columns[n])) = target_lower
    THEN CHOOSE n \in 1..Len(columns) :
            /\ Lower(Strip(columns[n])) = target_lower
            /\ \A m \in 1..(n - 1) : Lower(Strip(columns[m])) # target_lower
    ELSE 1

\* find_column_ignore_case: the position of the first column whose
\* stripped, lowercased name is target_lower; 0 stands for the KeyError.
find_column_ignore_case(columns, target_lower) ==
    IF \E n \in 1..Len(columns) : Lower(Strip(columns[n])) = target_lower
    THEN CHOOSE n \in 1..Len(columns) :
            /\ Lower(Strip(columns[n])) = target_lower
            /\ \A m \in 1..(n - 1) : Lower(Strip(columns[m])) # target_lower
    ELSE 0

\* The three lookups of one try block, in order; the first KeyError ends it.
\* Gives the resolved positions and the column named by the KeyError, if any.
LocateColumns(columns, required) ==
    LET pos == [n \in 1..3 |-> find_column_ignore_case(columns, required[n])]
        bad == { n \in 1..3 : pos[n] = 0 }
    IN  IF bad = {} THEN [cols |-> pos, missing |-> None]
        ELSE [cols |-> <<0, 0, 0>>,
              missing |-> required[CHOOSE n \in bad : \A m \in bad : n <= m]]

\* Mutant: an existing key keeps its first value
dict_set_keep_first(d, key, value) ==
    IF key \in DOMAIN d THEN d
    ELSE [k \in DOMAIN d \cup {key} |-> IF k = key THEN value ELSE d[k]]

\* d[key] = value on a dict
dict_set(d, key, value) ==
    [k \in DOMAIN d \cup {key} |-> IF k = key THEN value ELSE d[k]]

\* d[key].append(item) on a defaultdict(list)
defaultdict_append(d, key, item) ==
    [k \in DOMAIN d \cup {key} |->
        IF k = key
        THEN (IF key \in DOMAIN d THEN d[key] ELSE <<>>) \o <<item>>
        ELSE d[k]]

\* d.get(key, default): the value read
dict_get(d, key, default) == IF key \in DOMAIN d THEN d[key] ELSE default

\* Mutant: d[key] on a defaultdict(list) inserts the missing key
dict_after_getitem(d, key) ==
    [k \in DOMAIN d \cup {key} |-> IF k \in DOMAIN d THEN d[k] ELSE <<>>]

\* d.get(key, default): the dict afterwards; get never inserts
dict_after_get(d, key) == d

EmptyDict == [k \in {} |-> <<>>]

\* ------------------------------------------------------------ worksheet
GREEN == "C6EFCE"
YELLOW == "FFF2CC"
NoFill == "none"

MasterEntity == <<"m","a","s","t","e","r","e","n","t","i","t","y">>
NoMatchText == <<"N","o"," ","M","a","t","c","h">>

\* DataFrame.to_excel(index=False) then load_workbook: the header in row 1,
\* data row n in row n + 1; a NaN cell is written empty and does not exist.
to_excel(columns, rows) ==
    LET cells == { <<1, c>> : c \in 1..Len(columns) } \cup
                 { rc \in (2..(Len(rows) + 1)) \X (1..Len(columns)) :
                       rows[rc[1] - 1][rc[2]] # NaN }
    IN  [rc \in cells |->
            [value |-> IF rc[1] = 1 THEN columns[rc[2]] ELSE rows[rc[1] - 1][rc[2]],
             fill |-> NoFill]]

\* ws.max_column
max_column(sheet) ==
    IF DOMAIN sheet = {} THEN 1
    ELSE CHOOSE c \in { rc[2] : rc \in DOMAIN sheet } :
            \A rc \in DOMAIN sheet : rc[2] <= c

\* ws.cell(row, column): the cell, created empty when it does not exist
ws_cell(sheet, row, column) ==
    IF <<row, column>> \in DOMAIN sheet THEN sheet[<<row, column>>]
    ELSE [value |-> None, fill |-> NoFill]

\* ws.cell(row=row, column=column).value = value
set_value(sheet, row, column, value) ==
    [rc \in DOMAIN sheet \cup {<<row, column>>} |->
        IF rc = <<row, column>>
        THEN [ws_cell(sheet, row, column) EXCEPT !.value = value]
        ELSE sheet[rc]]

\* lines 148-149: for col in range(1, ws.max_column + 1): cell.fill = ...
fill_row(sheet, row, fill_color) ==
    LET last == max_column(sheet)
    IN  [rc \in DOMAIN sheet \cup { <<row, c>> : c \in 1..last } |->
            IF rc[1] = row /\ rc[2] \in 1..last
            THEN [ws_cell(sheet, rc[1], rc[2]) EXCEPT !.fill = fill_color]
            ELSE sheet[rc]]

\* ------------------------------------------------------------- matching
\* line 133: fund and cand_norm and (fund in cand_norm or cand_norm in fund)
\* Mutant: containment tested in one direction only
partial_test_one_way(fund, cand_norm) ==
    Truthy(fund) /\ Truthy(cand_norm) /\ Contains(cand_norm, fund)

partial_test(fund, cand_norm) ==
    /\ Truthy(fund)
    /\ Truthy(cand_norm)
    /\ (Contains(cand_norm, fund) \/ Contains(fund, cand_norm))

\* lines 132-138: the first candidate passing the test ends the loop; gives
\* matched_original_fund, None when the loop ends without a break.
RECURSIVE scan_candidates(_, _)
scan_candidates(candidates, fund) ==
    IF candidates = <<>> THEN None
    ELSE IF partial_test(fund, Head(candidates)[1]) THEN Head(candidates)[2]
    ELSE scan_candidates(Tail(candidates), fund)

\* Mutant: the partial scan runs first, the exact lookup only after it
classify_partial_first(lp, fund, cons, exact, grouped) ==
    LET found == scan_candidates(dict_get(grouped, <<lp, cons>>, <<>>), fund)
    IN  IF found # None
        THEN [matched |-> found, fill |-> YELLOW, branch |-> "Partial"]
        ELSE IF <<lp, fund, cons>> \in DOMAIN exact
        THEN [matched |-> exact[<<lp, fund, cons>>], fill |-> GREEN, branch |-> "Exact"]
        ELSE [matched |-> None, fill |-> NoFill, branch |-> "None"]

\* lines 120-138: matched_original_fund, fill_color and the branch that set
\* them, for one output row.
classify(lp, fund, cons, exact, grouped) ==
    IF <<lp, fund, cons>> \in DOMAIN exact
    THEN [matched |-> exact[<<lp, fund, cons>>], fill |-> GREEN, branch |-> "Exact"]
    ELSE LET found == scan_candidates(dict_get(grouped, <<lp, cons>>, <<>>), fund)
         IN  IF found # None
             THEN [matched |-> found, fill |-> YELLOW, branch |-> "Partial"]
             ELSE [matched |-> None, fill |-> NoFill, branch |-> "None"]

\* ---------------------------------------------------------------- state
VARIABLES
    pc,                 \* the script's position
    master_columns, master_orig,    \* MASTER file: header row, data rows
    output_columns, output_orig,    \* OUTPUT file: header row, data rows
    master_cols,        \* positions of master_lp_col, master_fund_col, master_cons_col
    output_cols,        \* positions of output_lp_col, output_fund_col, output_cons_col
    error,              \* what st.error showed
    master_lp_norm, master_fund_norm, master_cons_norm, master_fund_orig,
    exact_map, funds_by_lp_cons,
    zip_pos,            \* rows the index-building loop has consumed
    output_lp_norm, output_fund_norm, output_cons_norm,
    ws, last_col_index,
    exact_count, partial_count, no_match_count, log_lines,
    total, i,
    summary,            \* the counts st.success showed
    downloads           \* the files offered by st.download_button

files == <<master_columns, master_orig, output_columns, output_orig>>
located == <<master_cols, output_cols, error>>
master_norm == <<master_lp_norm, master_fund_norm, master_cons_norm, master_fund_orig>>
index == <<exact_map, funds_by_lp_cons, zip_pos>>
output_norm == <<output_lp_norm, output_fund_norm, output_cons_norm>>
sheet == <<ws, last_col_index>>
counters == <<exact_count, partial_count, no_match_count, log_lines>>
final == <<summary, downloads>>

vars == <<pc, files, located, master_norm, index, output_norm, sheet, counters,
          total, i, final, nvars>>

NoError == [dataset |-> "", column |-> <<>>]

\* Nothing uploaded yet: the script body under `if master_file and
\* output_file` has not run.
Idle ==
    /\ pc = "upload"
    /\ master_columns = <<>> /\ master_orig = <<>>
    /\ output_columns = <<>> /\ output_orig = <<>>
    /\ master_cols = <<0, 0, 0>> /\ output_cols = <<0, 0, 0>>
    /\ error = NoError
    /\ master_lp_norm = <<>> /\ master_fund_norm = <<>>
    /\ master_cons_norm = <<>> /\ master_fund_orig = <<>>
    /\ exact_map = EmptyDict /\ funds_by_lp_cons = EmptyDict
    /\ zip_pos = 0
    /\ output_lp_norm = <<>> /\ output_fund_norm = <<>> /\ output_cons_norm = <<>>
    /\ ws = EmptyDict /\ last_col_index = 0
    /\ exact_count = 0 /\ partial_count = 0 /\ no_match_count = 0
    /\ log_lines = <<>>
    /\ total = 0 /\ i = 0
    /\ summary = <<>> /\ downloads = {}

Init ==
    /\ Idle
    /\ nval = None /\ nfun = "done" /\ nres = None

\* lines 54-58: both files are uploaded and read
ReadFiles ==
    /\ pc = "upload"
    /\ \E master_file \in MasterFiles, output_file \in OutputFiles :
          /\ master_columns' = master_file[1]
          /\ master_orig' = master_file[2]
          /\ output_columns' = output_file[1]
          /\ output_orig' = output_file[2]
    /\ pc' = "locate_master"
    /\ UNCHANGED <<located, master_norm, index, output_norm, sheet, counters,
                   total, i, final, nvars>>

\* lines 61-67: the MASTER columns, or st.error and st.stop()
LocateMasterColumns ==
    /\ pc = "locate_master"
    /\ LET found == LocateColumns(master_columns, MasterRequired)
       IN  IF found.missing # None
           THEN /\ error' = [dataset |-> "MASTER", column |-> found.missing]
                /\ pc' = "stopped"
                /\ UNCHANGED master_cols
           ELSE /\ master_cols' = found.cols
                /\ pc' = "locate_output"
                /\ UNCHANGED error
    /\ UNCHANGED <<files, output_cols, master_norm, index, output_norm, sheet,
                   counters, total, i, final, nvars>>

\* lines 69-75: the OUTPUT columns, or st.error and st.stop()
LocateOutputColumns ==
    /\ pc = "locate_output"
    /\ LET found == LocateColumns(output_columns, OutputRequired)
       IN  IF found.missing # None
           THEN /\ error' = [dataset |-> "OUTPUT", column |-> found.missing]
                /\ pc' = "stopped"
                /\ UNCHANGED output_cols
           ELSE /\ output_cols' = found.cols
                /\ pc' = "normalize_master"
                /\ UNCHANGED error
    /\ UNCHANGED <<files, master_cols, master_norm, index, output_norm, sheet,
                   counters, total, i, final, nvars>>

\* lines 78-84: the normalised master columns and the two empty maps
NormalizeMaster ==
    /\ pc = "normalize_master"
    /\ master_lp_norm' = [n \in 1..Len(master_orig) |->
            normalize_lp_cons(fillna(master_orig[n][master_cols[1]]))]
    /\ master_fund_norm' = [n \in 1..Len(master_orig) |->
            normalize_fund(fillna(master_orig[n][master_cols[2]]))]
    /\ master_cons_norm' = [n \in 1..Len(master_orig) |->
            normalize_lp_cons(fillna(master_orig[n][master_cols[3]]))]
    /\ master_fund_orig' = [n \in 1..Len(master_orig) |->
            fillna(master_orig[n][master_cols[2]])]
    /\ exact_map' = EmptyDict
    /\ funds_by_lp_cons' = EmptyDict
    /\ zip_pos' = 0
    /\ pc' = "build_index"
    /\ UNCHANGED <<files, located, output_norm, sheet, counters, total, i,
                   final, nvars>>

\* lines 85-87: one iteration of the loop over the zipped master columns
BuildIndexRow ==
    /\ pc = "build_index"
    /\ zip_pos < Len(master_lp_norm)
    /\ LET lp_n == master_lp_norm[zip_pos + 1]
           fund_n == master_fund_norm[zip_pos + 1]
           cons_n == master_cons_norm[zip_pos + 1]
           fund_orig == master_fund_orig[zip_pos + 1]
       IN  /\ exact_map' = dict_set(exact_map, <<lp_n, fund_n, cons_n>>, fund_orig)
           /\ funds_by_lp_cons' =
                defaultdict_append(funds_by_lp_cons, <<lp_n, cons_n>>,
                                   <<fund_n, fund_orig>>)
    /\ zip_pos' = zip_pos + 1
    /\ UNCHANGED <<pc, files, located, master_norm, output_norm, sheet, counters,
                   total, i, final, nvars>>

\* lines 90-112: the normalised output columns, the workbook with its
\* masterentity header, and the counters
PrepareOutput ==
    /\ pc = "build_index"
    /\ zip_pos = Len(master_lp_norm)
    /\ output_lp_norm' = [n \in 1..Len(output_orig) |->
            normalize_lp_cons(fillna(output_orig[n][output_cols[1]]))]
    /\ output_fund_norm' = [n \in 1..Len(output_orig) |->
            normalize_fund(fillna(output_orig[n][output_cols[2]]))]
    /\ output_cons_norm' = [n \in 1..Len(output_orig) |->
            normalize_lp_cons(fillna(output_orig[n][output_cols[3]]))]
    /\ LET book == to_excel(output_columns, output_orig)
       IN  /\ last_col_index' = max_column(book) + 1
           /\ ws' = set_value(book, 1, max_column(book) + 1, MasterEntity)
    /\ exact_count' = 0
    /\ partial_count' = 0
    /\ no_match_count' = 0
    /\ log_lines' = <<>>
    /\ total' = Len(output_orig)
    /\ i' = 0
    /\ pc' = "match"
    /\ UNCHANGED <<files, located, master_norm, index, final, nvars>>

\* lines 114-149: one iteration of the matching loop, for data row i
MatchRow ==
    /\ pc = "match"
    /\ i < total
    /\ LET excel_row == i + 2
           lp == output_lp_norm[i + 1]
           fund == output_fund_norm[i + 1]
           cons == output_cons_norm[i + 1]
           d == classify(lp, fund, cons, exact_map, funds_by_lp_cons)
           hit == [row |-> excel_row, text |-> d.branch, fund |-> d.matched]
           miss == [row |-> excel_row, text |-> "No Match", fund |-> None]
           logged == IF d.branch = "None" THEN log_lines ELSE Append(log_lines, hit)
           written == set_value(ws, excel_row, last_col_index,
                                IF Truthy(d.matched) THEN d.matched ELSE NoMatchText)
       IN  /\ exact_count' = exact_count + (IF d.branch = "Exact" THEN 1 ELSE 0)
           /\ partial_count' = partial_count + (IF d.branch = "Partial" THEN 1 ELSE 0)
           /\ no_match_count' = no_match_count + (IF Truthy(d.matched) THEN 0 ELSE 1)
           /\ log_lines' = IF Truthy(d.matched) THEN logged ELSE Append(logged, miss)
           /\ ws' = IF d.fill # NoFill THEN fill_row(written, excel_row, d.fill)
                    ELSE written
           /\ funds_by_lp_cons' =
                IF d.branch = "Exact" THEN funds_by_lp_cons
                ELSE dict_after_get(funds_by_lp_cons, <<lp, cons>>)
    /\ i' = i + 1
    /\ UNCHANGED <<pc, files, located, master_norm, exact_map, zip_pos,
                   output_norm, last_col_index, total, final, nvars>>

\* lines 151-185: the summary and the two download buttons
ShowSummary ==
    /\ pc = "match"
    /\ i = total
    /\ summary' = <<exact_count, partial_count, no_match_count, total>>
    /\ downloads' = {"output_processed.xlsx", "match_log.txt"}
    /\ pc' = "done"
    /\ UNCHANGED <<files, located, master_norm, index, output_norm, sheet,
                   counters, total, i, nvars>>

Next ==
    \/ ReadFiles
    \/ LocateMasterColumns
    \/ LocateOutputColumns
    \/ NormalizeMaster
    \/ BuildIndexRow
    \/ PrepareOutput
    \/ MatchRow
    \/ ShowSummary

Spec == Init /\ [][Next]_vars

\* ------------------------------------------------ normaliser on its own
NormAlphabet == {"a", "l", "L", "p", "c", ".", " "}

NormInputs ==
    {None} \cup UNION { [1..n -> NormAlphabet] : n \in 0..MaxLen }

NormInit ==
    /\ Idle
    /\ nval \in NormInputs
    /\ nfun = "none"
    /\ nres = None

CallNormalizeFund ==
    /\ nfun = "none"
    /\ nfun' = "normalize_fund"
    /\ nres' = normalize_fund(nval)
    /\ UNCHANGED <<nval, pc, files, located, master_norm, index, output_norm,
                   sheet, counters, total, i, final>>

CallNormalizeLpCons ==
    /\ nfun = "none"
    /\ nfun' = "normalize_lp_cons"
    /\ nres' = normalize_lp_cons(nval)
    /\ UNCHANGED <<nval, pc, files, located, master_norm, index, output_norm,
                   sheet, counters, total, i, final>>

NormNext ==
    \/ CallNormalizeFund
    \/ CallNormalizeLpCons

NormSpec == NormInit /\ [][NormNext]_vars

\* ------------------------------------------------------------- claim C9
\* The trailing legal-suffix tokens: LP, L.P, LP., L.P., LLC, LLC.
LegalSuffixes == { <<"l","p">>, <<"l",".","p">>, <<"l","p",".">>,
                   <<"l",".","p",".">>, <<"l","l","c">>, <<"l","l","c",".">> }

EndsWith(s, t) ==
    /\ Len(s) >= Len(t)
    /\ Lower(SubSeq(s, Len(s) - Len(t) + 1, Len(s))) = t

Processed == IF pc \in {"match", "done"} THEN 1..i ELSE {}

\* the normalised triple of data row n
RowKey(n) == <<output_lp_norm[n], output_fund_norm[n], output_cons_norm[n]>>

\* the log holds a line of this kind for data row n (sheet row n + 1)
RowLog(n, text) ==
    \E k \in 1..Len(log_lines) :
        log_lines[k].row = n + 1 /\ log_lines[k].text = text

\* ... naming this master fund
RowLogFund(n, text, fund) ==
    \E k \in 1..Len(log_lines) :
        /\ log_lines[k].row = n + 1
        /\ log_lines[k].text = text
        /\ log_lines[k].fund = fund

\* the masterentity cell of data row n
DerivedCell(n) == ws[<<n + 1, last_col_index>>].value

\* every cell of data row n, columns 1 through the derived one, has this fill
RowFilled(n, color) ==
    \A c \in 1..last_col_index :
        <<n + 1, c>> \in DOMAIN ws /\ ws[<<n + 1, c>>].fill = color

\* no cell of data row n has a fill
RowUnfilled(n) ==
    \A rc \in DOMAIN ws : rc[1] = n + 1 => ws[rc].fill = NoFill

\* the normalised triple and the display text of master row m
MasterTriple(m) == <<master_lp_norm[m], master_fund_norm[m], master_cons_norm[m]>>

MasterDisplay(m) == master_fund_orig[m]

\* master rows of the (lp_key, consultant_key) group of data row n
GroupOf(n) ==
    { m \in 1..Len(master_lp_norm) :
        /\ MasterTriple(m)[1] = output_lp_norm[n]
        /\ MasterTriple(m)[3] = output_cons_norm[n] }

\* master rows of that group passing the containment test against row n
Qualifying(n) ==
    { m \in GroupOf(n) :
        /\ MasterTriple(m)[2] # <<>>
        /\ output_fund_norm[n] # <<>>
        /\ \/ Contains(MasterTriple(m)[2], output_fund_norm[n])
           \/ Contains(output_fund_norm[n], MasterTriple(m)[2]) }

Least(S) == CHOOSE m \in S : \A k \in S : m <= k

\* ------------------------------------------------------------- claim C1
\* C1: when the matching loop has finished, exact_count + partial_count +
\* no_match_count equals the number of output rows.
C1_SumCheck ==
    (pc = "done") => exact_count + partial_count + no_match_count = total

\* ------------------------------------------------------------- claim C2
\* C2: the masterentity cell of a row holds the matched master fund's
\* display text when the row is Exact or Partial, and holds "No Match" only
\* when the row is neither.
C2_DerivedCell ==
    \A n \in Processed :
        /\ \A text \in {"Exact", "Partial"} :
              RowLog(n, text) => RowLogFund(n, text, DerivedCell(n))
        /\ DerivedCell(n) = NoMatchText =>
              ~RowLog(n, "Exact") /\ ~RowLog(n, "Partial")

\* ------------------------------------------------------------- claim C3
\* C3: a row whose normalised triple is a key of the exact map takes the
\* exact branch (logged Exact with the display value stored under the
\* triple, green fill, counted in exact_count) and never the partial one,
\* whatever candidates its group holds.
C3_ExactPriority ==
    /\ \A n \in Processed :
          RowKey(n) \in DOMAIN exact_map =>
              /\ RowLogFund(n, "Exact", exact_map[RowKey(n)])
              /\ ~RowLog(n, "Partial")
              /\ RowFilled(n, GREEN)
    /\ \A n \in Processed :
          RowLog(n, "Partial") => RowKey(n) \notin DOMAIN exact_map
    /\ exact_count = Cardinality({ n \in Processed : RowKey(n) \in DOMAIN exact_map })

\* an exact hit whose group lists, ahead of it, a candidate that passes the
\* containment test
C3_Witness ==
    /\ pc = "done"
    /\ \E n \in Processed :
          /\ RowKey(n) \in DOMAIN exact_map
          /\ Qualifying(n) # {}
          /\ MasterDisplay(Least(Qualifying(n))) # exact_map[RowKey(n)]
          /\ RowLog(n, "Exact")

\* ------------------------------------------------------------- claim C4
\* C4: a row with no exact hit is Partial with the display text of the
\* first master row of its (lp, consultant) group whose fund key and the
\* row's fund key are both non-empty and one contains the other; if there
\* is none (or no such group) the row is NoMatch.
C4_PartialScan ==
    \A n \in Processed :
        RowKey(n) \notin DOMAIN exact_map =>
            IF Qualifying(n) # {}
            THEN /\ RowLogFund(n, "Partial", MasterDisplay(Least(Qualifying(n))))
                 /\ DerivedCell(n) = MasterDisplay(Least(Qualifying(n)))
                 /\ RowFilled(n, YELLOW)
                 /\ ~RowLog(n, "No Match")
            ELSE /\ RowLog(n, "No Match")
                 /\ DerivedCell(n) = NoMatchText
                 /\ RowUnfilled(n)
                 /\ ~RowLog(n, "Partial")

\* a Partial row whose group holds, ahead of the matched candidate, one
\* that does not qualify
C4_Witness ==
    /\ pc = "done"
    /\ \E n \in Processed :
          /\ RowLog(n, "Partial")
          /\ Least(GroupOf(n)) \notin Qualifying(n)
          /\ MasterTriple(Least(GroupOf(n)))[2] # <<>>

\* ------------------------------------------------------------- claim C5
\* C5: once the loop over the master rows has consumed them, exact_map
\* holds for every normalised triple the display text of the last master
\* row with that triple, and funds_by_lp_cons holds for every (lp,
\* consultant) pair one entry per master row of the pair, in row order.
C5_IndexBuild ==
    (pc \in {"build_index", "match", "done"}) =>
        LET rows == 1..zip_pos
            group(g) == { m \in rows : <<MasterTriple(m)[1], MasterTriple(m)[3]>> = g }
        IN  /\ DOMAIN exact_map = { MasterTriple(m) : m \in rows }
            /\ \A m \in rows :
                  (\A k \in rows : k > m => MasterTriple(k) # MasterTriple(m))
                      => exact_map[MasterTriple(m)] = MasterDisplay(m)
            /\ DOMAIN funds_by_lp_cons =
                  { <<MasterTriple(m)[1], MasterTriple(m)[3]>> : m \in rows }
            /\ \A g \in DOMAIN funds_by_lp_cons :
                  /\ Len(funds_by_lp_cons[g]) = Cardinality(group(g))
                  /\ \A m \in group(g) :
                        funds_by_lp_cons[g][Cardinality({ k \in group(g) : k <= m })]
                            = <<MasterTriple(m)[2], MasterDisplay(m)>>

\* two master rows with one triple and different display texts were indexed
C5_Witness ==
    /\ pc = "match"
    /\ \E m, k \in 1..Len(master_lp_norm) :
          /\ m < k
          /\ MasterTriple(m) = MasterTriple(k)
          /\ MasterDisplay(m) # MasterDisplay(k)
          /\ exact_map[MasterTriple(m)] = MasterDisplay(k)
          /\ Len(funds_by_lp_cons[<<MasterTriple(m)[1], MasterTriple(m)[3]>>]) >= 2

\* ------------------------------------------------------------- claim C6
\* no column of this header row has the name, compared stripped and lowercased
Lacks(columns, name) ==
    \A n \in 1..Len(columns) : Lower(Strip(columns[n])) # name

MasterLacks == { n \in 1..3 : Lacks(master_columns, MasterRequired[n]) }
OutputLacks == { n \in 1..3 : Lacks(output_columns, OutputRequired[n]) }

\* C6: when the master lacks a required column, or the output does, the run
\* never gets past locating the columns: no index is built, no row is
\* classified, no worksheet, counters, summary or download exist; and when
\* it has stopped, the error names the dataset and a column it lacks.
C6_MissingColumn ==
    (pc # "upload" /\ (MasterLacks # {} \/ OutputLacks # {})) =>
        /\ pc \in {"locate_master", "locate_output", "stopped"}
        /\ pc = "locate_output" => MasterLacks = {}
        /\ master_lp_norm = <<>> /\ master_fund_norm = <<>>
        /\ master_cons_norm = <<>> /\ master_fund_orig = <<>>
        /\ exact_map = EmptyDict /\ funds_by_lp_cons = EmptyDict /\ zip_pos = 0
        /\ i = 0 /\ log_lines = <<>> /\ ws = EmptyDict
        /\ exact_count = 0 /\ partial_count = 0 /\ no_match_count = 0
        /\ summary = <<>> /\ downloads = {}
        /\ pc = "stopped" =>
              IF MasterLacks # {}
              THEN /\ error.dataset = "MASTER"
                   /\ error.column \in { MasterRequired[n] : n \in MasterLacks }
              ELSE /\ error.dataset = "OUTPUT"
                   /\ error.column \in { OutputRequired[n] : n \in OutputLacks }

\* the run stopped on an output file without a fundname column
C6_Witness ==
    /\ pc = "stopped"
    /\ OutputLacks = {2}
    /\ error = [dataset |-> "OUTPUT", column |-> OutputRequired[2]]

\* ------------------------------------------------------------- claim C7
\* C7: every cell of a data row, column 1 through the derived column, is
\* green when the row is Exact and yellow when it is Partial, and a row
\* whose derived cell is "No Match" has no fill on any cell.
C7_RowFills ==
    \A n \in Processed :
        /\ RowLog(n, "Exact") => RowFilled(n, GREEN)
        /\ RowLog(n, "Partial") => RowFilled(n, YELLOW)
        /\ DerivedCell(n) = NoMatchText => RowUnfilled(n)

\* ------------------------------------------------------------- claim C8
\* fields of data row n of the output that are null
NullFields(n) == { f \in 1..3 : output_orig[n][output_cols[f]] = NaN }

\* C8 as stated: a row with a null lp, fund or consultant has the empty key
\* for that field and resolves to NoMatch or to Partial.
C8_NullRowNoMatchOrPartial ==
    \A n \in Processed :
        NullFields(n) # {} =>
            /\ \A f \in NullFields(n) : RowKey(n)[f] = <<>>
            /\ RowLog(n, "No Match") \/ RowLog(n, "Partial")

\* C8 amended: a row with a null lp, fund or consultant has the empty key
\* for that field and the run goes on without an error; the row resolves to
\* NoMatch or Partial unless its normalised triple is a key of the exact
\* map, and then it takes the exact branch; a null fund is never Partial.
C8_NullRows ==
    /\ pc \in {"match", "done"} => error = NoError
    /\ \A n \in Processed :
          NullFields(n) # {} =>
              /\ \A f \in NullFields(n) : RowKey(n)[f] = <<>>
              /\ RowKey(n) \notin DOMAIN exact_map =>
                    /\ RowLog(n, "No Match") \/ RowLog(n, "Partial")
                    /\ ~RowLog(n, "Exact")
              /\ RowKey(n) \in DOMAIN exact_map =>
                    RowLogFund(n, "Exact", exact_map[RowKey(n)])
              /\ 2 \in NullFields(n) => ~RowLog(n, "Partial")

\* a row with null fields took the exact branch against a master row whose
\* keys are empty too
C8_Witness ==
    /\ pc = "done"
    /\ \E n \in Processed :
          /\ NullFields(n) = {1, 2, 3}
          /\ RowLog(n, "Exact")
          /\ DerivedCell(n) # NoMatchText

\* ------------------------------------------------------------ claim C10
\* rows with the same keys got the same outcome
SameKeysSameOutcome ==
    \A n, k \in Processed :
        RowKey(n) = RowKey(k) =>
            /\ DerivedCell(n) = DerivedCell(k)
            /\ \A text \in {"Exact", "Partial", "No Match"} :
                  RowLog(n, text) <=> RowLog(k, text)
            /\ \A c \in 1..last_col_index :
                  ws_cell(ws, n + 1, c).fill = ws_cell(ws, k + 1, c).fill

\* C10: no step of the matching loop changes exact_map or funds_by_lp_cons
\* (keys, values, list order), also for a row whose group the master does
\* not have; and rows with the same keys get the same outcome wherever
\* they stand.
C10_IndexFrame ==
    [][ /\ pc = "match" =>
              /\ exact_map' = exact_map
              /\ funds_by_lp_cons' = funds_by_lp_cons
        /\ SameKeysSameOutcome' ]_vars

\* a row whose group the master does not have was classified, then a
\* second row with the same keys
C10_Witness ==
    /\ pc = "done"
    /\ i >= 2
    /\ <<output_lp_norm[1], output_cons_norm[1]>> \notin DOMAIN funds_by_lp_cons
    /\ RowKey(1) = RowKey(2)
    /\ DOMAIN funds_by_lp_cons # {}


====
